---- MODULE Spec2Model ----
(***************************************************************************)
(* The authentication token lifecycle and the request dispatch of the R2C  *)
(* client (R2CClient / APIClient).  One client instance is modelled: its   *)
(* construction, its token cache and in-flight refresh promise, the calls  *)
(* that resolve a bearer value (authHeaders) or dispatch a request         *)
(* (makeRequest), the injected transport's answers, and the clock.         *)
(*                                                                         *)
(* JavaScript runs every stretch of code between two awaits atomically;    *)
(* each such stretch is one action.  A promise that has settled and the    *)
(* resumption of a caller awaiting it are different steps: other code may  *)
(* run between them.                                                       *)
(*                                                                         *)
(* Spec follows the client and its calls.  The two functions a dispatch    *)
(* applies to its data are followed on their own: SpecRequest takes every  *)
(* call of a verb operation from its arguments to the arguments of the     *)
(* transport call, SpecResponse takes every response through               *)
(* parseResponse().                                                        *)
(***************************************************************************)
EXTENDS Integers, Sequences, FiniteSets, TLC

VARIABLES
    constructed,       \* "new" | "ok" | "error": the constructor's outcome
    options,           \* the constructor's arguments while they matter
    ctorError,         \* the message of the error the constructor threw
    bearerToken,       \* APIClient.bearerToken
    oauthCredentials,  \* APIClient.oauthCredentials (TRUE: a credential set)
    tokenCache,        \* APIClient.tokenCache
    refreshPromise,    \* APIClient.refreshPromise: 0 (null) or the promise's id
    now,               \* Date.now(), in milliseconds
    calls,             \* the authHeaders / makeRequest calls made so far
    exch,              \* the promises returned by fetchOAuthToken()
    nCalls,            \* number of calls started
    identityCalls,     \* transport calls made to {identity_url}/connect/token
    resourceCalls,     \* transport calls made to {baseURL}{path}
    lastOp,            \* "clearToken" when that is what ran last (history)
    invocation,        \* a call of get / getWithQuery / post / patch / delete
    descriptor,        \* the RequestOptions that call hands to makeRequest()
    wire,              \* the url and init makeRequest() hands to this.fetch
    response,          \* a Response handed to parseResponse()
    outcome,           \* what parseResponse() returned or raised for it
    bodyRead,          \* the reader of the Response parseResponse() called
    fleet              \* two clients side by side: their fields and calls

\* The client and its calls.
clientVars == << constructed, options, ctorError, bearerToken, oauthCredentials,
                 tokenCache, refreshPromise, now, calls, exch, nCalls,
                 identityCalls, resourceCalls, lastOp >>

\* One verb call followed from its arguments to the transport, and one
\* response followed through parseResponse().
requestVars == << invocation, descriptor, wire >>
responseVars == << response, outcome, bodyRead >>
fleetVars == << fleet >>

vars == << clientVars, requestVars, responseVars, fleetVars >>

----------------------------------------------------------------------------
\* Bounds of the model.

\* Calls (resolutions and dispatches together) one behaviour makes.
MaxCalls == 2

\* The clock stops advancing here (milliseconds).
MaxNow == 60000

----------------------------------------------------------------------------
\* Values.

\* JavaScript's null / undefined for a string-valued field.
null == "null"

\* tokenCache = null.
NoCache == [null |-> TRUE]

\* Truthiness of a string-or-null value: null, undefined and '' are falsy.
Truthy(s) == s \notin {null, ""}

TOKEN_BUFFER_MS == 60000

\* Access tokens the identity server hands out, tokens installed by hand,
\* and the static bearer token.
ServerTokens == {"a", "b"}
ManualTokens == {"m"}
StaticToken == "t1"

\* expiresIn / expires_in values, in seconds.
Lifetimes == {60, 120}

\* The clock advances by these amounts.
ClockSteps == {TOKEN_BUFFER_MS}

CallIds == 1..MaxCalls

----------------------------------------------------------------------------
\* R2CError (message, status, headers, error).  A message is modelled by
\* the tuple of its parts.

\* An optional argument: undefined, or a value.
Undefined == << >>
Some(x) == <<x>>

R2CError(message, status, headers, error) ==
    [name |-> "R2CError", message |-> message, status |-> status,
     headers |-> headers, error |-> error]

\* An error that is not an R2CError: whatever the transport or the body
\* parser rejected with.
ForeignError(what) ==
    [name |-> what, message |-> <<what>>, status |-> Undefined,
     headers |-> Undefined, error |-> Undefined]

NoError == [name |-> "none"]

----------------------------------------------------------------------------
\* JavaScript values that travel as query values, bodies and results: a type
\* and the value's literal.  An object is held as its JSON text.

JsUndefined == [t |-> "undefined", v |-> "undefined"]
JsNull == [t |-> "null", v |-> "null"]
JsNumber(lit) == [t |-> "number", v |-> lit]
JsBoolean(lit) == [t |-> "boolean", v |-> lit]
JsString(str) == [t |-> "string", v |-> str]
JsObject(json) == [t |-> "object", v |-> json]

\* if (value): undefined, null, 0, false and '' are falsy.
JsTruthy(value) ==
    value \notin {JsUndefined, JsNull, JsNumber("0"), JsBoolean("false"),
                  JsString("")}

\* String(value)
String(value) ==
    IF value.t = "object" THEN "[object Object]" ELSE value.v

\* JSON.stringify(value), for a value other than undefined.
JSONStringify(value) ==
    IF value.t = "string" THEN "\"" \o value.v \o "\"" ELSE value.v

\* The JSON texts JSON.parse() accepts among the bodies of the model, with
\* the values they denote.
JsonTexts ==
    {<<"{}", JsObject("{}")>>, <<"null", JsNull>>, <<"0", JsNumber("0")>>,
     <<"\"a\"", JsString("a")>>}

IsJson(text) == \E p \in JsonTexts : p[1] = text

\* JSON.parse(text), for a text it accepts.
JSONParse(text) == (CHOOSE p \in JsonTexts : p[1] = text)[2]

----------------------------------------------------------------------------
\* R2CClient's constructor: the two checks before super().

\* The constructor without its second check (lines 122-125).
R2CClientCheck_FirstOnly(opts) ==
    IF ~Truthy(opts.bearerToken) /\ ~opts.oauthCredentials
    THEN "Either bearerToken or oauthCredentials is required"
    ELSE "none"

R2CClientCheck(opts) ==
    IF ~Truthy(opts.bearerToken) /\ ~opts.oauthCredentials
    THEN "Either bearerToken or oauthCredentials is required"
    ELSE IF Truthy(opts.bearerToken) /\ opts.oauthCredentials
    THEN "Cannot provide both bearerToken and oauthCredentials. Choose one authentication method."
    ELSE "none"

\* bearerToken || null
OrNull(s) == IF Truthy(s) THEN s ELSE null

\* The constructor is called through R2CClient or, for a manually built
\* client, on a subclass of APIClient directly.
CtorOptions ==
    [via : {"R2CClient", "APIClient"},
     bearerToken : {null, "", StaticToken},
     oauthCredentials : BOOLEAN]

NoOptions == [via |-> "none"]

Construct ==
    /\ constructed = "new"
    /\ LET err == IF options.via = "R2CClient"
                  THEN R2CClientCheck(options) ELSE "none"
       IN  IF err # "none"
           THEN /\ constructed' = "error"
                /\ ctorError' = err
                /\ UNCHANGED << options, bearerToken, oauthCredentials >>
           ELSE /\ constructed' = "ok"
                /\ ctorError' = "none"
                /\ bearerToken' = OrNull(options.bearerToken)
                /\ oauthCredentials' = options.oauthCredentials
                /\ options' = NoOptions
    /\ lastOp' = "other"
    /\ UNCHANGED << requestVars, responseVars, fleetVars >>
    /\ UNCHANGED << tokenCache, refreshPromise, now, calls, exch, nCalls,
                    identityCalls, resourceCalls >>

----------------------------------------------------------------------------
\* The identity endpoint's answers to POST {identity_url}/connect/token.

\* The transport call itself rejects (network failure).
Rejected == [settle |-> "rejected"]

\* A non-2xx response.
HttpFailure(status, text) ==
    [settle |-> "fulfilled", ok |-> FALSE, status |-> status,
     headers |-> "identity-headers", text |-> text]

\* A 2xx response whose body is not JSON: response.json() rejects.
NotJson ==
    [settle |-> "fulfilled", ok |-> TRUE, status |-> 200,
     headers |-> "identity-headers", json |-> FALSE]

\* A 2xx response with a JSON body.  An absent access_token is null; an
\* absent expires_in behaves as 0 does (both are falsy).
TokenBody(access_token, expires_in) ==
    [settle |-> "fulfilled", ok |-> TRUE, status |-> 200,
     headers |-> "identity-headers", json |-> TRUE,
     access_token |-> access_token, expires_in |-> expires_in]

IdentityResponses ==
    {Rejected, HttpFailure(401, "bad creds"), NotJson,
     TokenBody(null, 120), TokenBody("a", 0), TokenBody("a", 60)}
    \cup {TokenBody(t, 120) : t \in ServerTokens}

----------------------------------------------------------------------------
\* The token cache.

TokenCache(access_token, expires_at) ==
    [access_token |-> access_token, expires_at |-> expires_at]

\* A validity test that accepts a token expiring exactly at the buffer.
isTokenValid_AtBuffer(cache, t) ==
    IF cache = NoCache THEN FALSE
    ELSE cache.expires_at >= t + TOKEN_BUFFER_MS

\* isTokenValid()
isTokenValid(cache, t) ==
    IF cache = NoCache THEN FALSE
    ELSE cache.expires_at > t + TOKEN_BUFFER_MS

\* getOAuthToken() without line 289: a call never joins the promise of an
\* exchange in flight.
getOAuthTokenPath_NoJoin(cache, promise, t) ==
    IF cache # NoCache /\ isTokenValid(cache, t) THEN "cached" ELSE "start"

\* The three ways through getOAuthToken(): the cached token, the promise
\* of the exchange in flight, or a new exchange.
getOAuthTokenPath(cache, promise, t) ==
    IF cache # NoCache /\ isTokenValid(cache, t) THEN "cached"
    ELSE IF promise # 0 THEN "join"
    ELSE "start"

\* authHeaders() looking at the static token first.
authHeadersPath_BearerFirst(bearer, oauth) ==
    IF Truthy(bearer) THEN "bearer"
    ELSE IF oauth THEN "oauth"
    ELSE "none"

\* authHeaders() without its second test (lines 271-275).
authHeadersPath_NoBearer(bearer, oauth) ==
    IF oauth THEN "oauth" ELSE "none"

\* authHeaders() taking a cached token for a sign of OAuth mode.
authHeadersPath_CacheFirst(bearer, oauth) ==
    IF oauth \/ tokenCache # NoCache THEN "oauth"
    ELSE IF Truthy(bearer) THEN "bearer"
    ELSE "none"

\* authHeaders() without its final throw: the static token is used
\* whatever it is.
authHeadersPath_NullBearer(bearer, oauth) ==
    IF oauth THEN "oauth" ELSE "bearer"

\* The order in which authHeaders() looks at the credentials.
authHeadersPath(bearer, oauth) ==
    IF oauth THEN "oauth"
    ELSE IF Truthy(bearer) THEN "bearer"
    ELSE "none"

\* { Authorization: `Bearer ${token}` }
AuthorizationHeader(token) == [Authorization |-> <<"Bearer", token>>]

NoAuthError ==
    R2CError(<<"No authentication configured. Provide either bearerToken or oauthCredentials.">>,
             Undefined, Undefined, Undefined)

\* A fetchOAuthToken() that drops the cached token when the identity
\* endpoint refuses the exchange.
fetchOAuthTokenSettle_ClearsCache(resp, cache, t) ==
    IF ~resp.ok
    THEN [stage |-> "rejected", value |-> null, cache |-> NoCache,
          error |-> R2CError(<<"Authentication failed: ", resp.status, " ", resp.text>>,
                             Some(resp.status), Some(resp.headers),
                             Some(resp.text))]
    ELSE IF ~resp.json
    THEN [stage |-> "rejected", value |-> null, cache |-> cache,
          error |-> ForeignError("SyntaxError")]
    ELSE IF ~Truthy(resp.access_token) \/ resp.expires_in = 0
    THEN [stage |-> "rejected", value |-> null, cache |-> cache,
          error |-> R2CError(<<"Invalid token response from server">>,
                             Undefined, Undefined, Undefined)]
    ELSE [stage |-> "fulfilled", value |-> resp.access_token,
          cache |-> TokenCache(resp.access_token, t + resp.expires_in * 1000),
          error |-> NoError]

\* A fetchOAuthToken() that only tests access_token (line 361 without its
\* second operand).
fetchOAuthTokenSettle_TokenOnly(resp, cache, t) ==
    IF ~resp.ok
    THEN [stage |-> "rejected", value |-> null, cache |-> cache,
          error |-> R2CError(<<"Authentication failed: ", resp.status, " ", resp.text>>,
                             Some(resp.status), Some(resp.headers),
                             Some(resp.text))]
    ELSE IF ~resp.json
    THEN [stage |-> "rejected", value |-> null, cache |-> cache,
          error |-> ForeignError("SyntaxError")]
    ELSE IF ~Truthy(resp.access_token)
    THEN [stage |-> "rejected", value |-> null, cache |-> cache,
          error |-> R2CError(<<"Invalid token response from server">>,
                             Undefined, Undefined, Undefined)]
    ELSE [stage |-> "fulfilled", value |-> resp.access_token,
          cache |-> TokenCache(resp.access_token, t + resp.expires_in * 1000),
          error |-> NoError]

\* A fetchOAuthToken() that does not overwrite a token installed by hand.
fetchOAuthTokenSettle_KeepsManual(resp, cache, t) ==
    IF ~resp.ok
    THEN [stage |-> "rejected", value |-> null, cache |-> cache,
          error |-> R2CError(<<"Authentication failed: ", resp.status, " ", resp.text>>,
                             Some(resp.status), Some(resp.headers),
                             Some(resp.text))]
    ELSE IF ~resp.json
    THEN [stage |-> "rejected", value |-> null, cache |-> cache,
          error |-> ForeignError("SyntaxError")]
    ELSE IF ~Truthy(resp.access_token) \/ resp.expires_in = 0
    THEN [stage |-> "rejected", value |-> null, cache |-> cache,
          error |-> R2CError(<<"Invalid token response from server">>,
                             Undefined, Undefined, Undefined)]
    ELSE [stage |-> "fulfilled", value |-> resp.access_token,
          cache |-> IF cache # NoCache /\ cache.access_token \in ManualTokens
                    THEN cache
                    ELSE TokenCache(resp.access_token, t + resp.expires_in * 1000),
          error |-> NoError]

\* A fetchOAuthToken() that empties the cache when the response holds no
\* usable token.
fetchOAuthTokenSettle_DropsOnInvalid(resp, cache, t) ==
    IF ~resp.ok
    THEN [stage |-> "rejected", value |-> null, cache |-> cache,
          error |-> R2CError(<<"Authentication failed: ", resp.status, " ", resp.text>>,
                             Some(resp.status), Some(resp.headers),
                             Some(resp.text))]
    ELSE IF ~resp.json
    THEN [stage |-> "rejected", value |-> null, cache |-> cache,
          error |-> ForeignError("SyntaxError")]
    ELSE IF ~Truthy(resp.access_token) \/ resp.expires_in = 0
    THEN [stage |-> "rejected", value |-> null, cache |-> NoCache,
          error |-> R2CError(<<"Invalid token response from server">>,
                             Undefined, Undefined, Undefined)]
    ELSE [stage |-> "fulfilled", value |-> resp.access_token,
          cache |-> TokenCache(resp.access_token, t + resp.expires_in * 1000),
          error |-> NoError]

\* A fetchOAuthToken() that adds expires_in to the clock as it is, in
\* seconds.
fetchOAuthTokenSettle_Seconds(resp, cache, t) ==
    IF ~resp.ok
    THEN [stage |-> "rejected", value |-> null, cache |-> cache,
          error |-> R2CError(<<"Authentication failed: ", resp.status, " ", resp.text>>,
                             Some(resp.status), Some(resp.headers),
                             Some(resp.text))]
    ELSE IF ~resp.json
    THEN [stage |-> "rejected", value |-> null, cache |-> cache,
          error |-> ForeignError("SyntaxError")]
    ELSE IF ~Truthy(resp.access_token) \/ resp.expires_in = 0
    THEN [stage |-> "rejected", value |-> null, cache |-> cache,
          error |-> R2CError(<<"Invalid token response from server">>,
                             Undefined, Undefined, Undefined)]
    ELSE [stage |-> "fulfilled", value |-> resp.access_token,
          cache |-> TokenCache(resp.access_token, t + resp.expires_in),
          error |-> NoError]

\* fetchOAuthToken() once the transport has answered with resp at time t:
\* what the promise settles with and what the cache becomes.
fetchOAuthTokenSettle(resp, cache, t) ==
    IF ~resp.ok
    THEN [stage |-> "rejected", value |-> null, cache |-> cache,
          error |-> R2CError(<<"Authentication failed: ", resp.status, " ", resp.text>>,
                             Some(resp.status), Some(resp.headers),
                             Some(resp.text))]
    ELSE IF ~resp.json
    THEN [stage |-> "rejected", value |-> null, cache |-> cache,
          error |-> ForeignError("SyntaxError")]
    ELSE IF ~Truthy(resp.access_token) \/ resp.expires_in = 0
    THEN [stage |-> "rejected", value |-> null, cache |-> cache,
          error |-> R2CError(<<"Invalid token response from server">>,
                             Undefined, Undefined, Undefined)]
    ELSE [stage |-> "fulfilled", value |-> resp.access_token,
          cache |-> TokenCache(resp.access_token, t + resp.expires_in * 1000),
          error |-> NoError]

----------------------------------------------------------------------------
\* The resource endpoint's answers and parseResponse().

ResourceRejected == [settle |-> "rejected"]

Response(status, statusText, contentType, text) ==
    [settle |-> "fulfilled", ok |-> (status >= 200 /\ status <= 299),
     status |-> status, statusText |-> statusText,
     headers |-> "resource-headers", contentType |-> contentType,
     text |-> text]

\* contentType?.includes('application/json'); an absent header is null.
IsJsonContentType(contentType) ==
    contentType \in {"application/json", "application/json; charset=utf-8"}

\* The responses followed through parseResponse(): statuses with their
\* reason phrases, content-type headers (null: no such header) and bodies.
Statuses == {200, 201, 204, 299, 300, 400, 401, 404, 500}

StatusText(status) ==
    CASE status = 200 -> "OK"
      [] status = 201 -> "Created"
      [] status = 204 -> "No Content"
      [] status = 300 -> "Multiple Choices"
      [] status = 400 -> "Bad Request"
      [] status = 401 -> "Unauthorized"
      [] status = 404 -> "Not Found"
      [] status = 500 -> "Internal Server Error"
      [] OTHER -> ""

ContentTypes ==
    {null, "application/json", "application/json; charset=utf-8",
     "text/plain", "application/problem+json"}

BodyTexts == {"", "{}", "null", "\"a\"", "Not found"}

NoResponse == [settle |-> "none"]

Responses ==
    {Response(status, StatusText(status), contentType, text) :
        status \in Statuses, contentType \in ContentTypes, text \in BodyTexts}

ResourceResponses ==
    {ResourceRejected,
     Response(200, "OK", "application/json", "{}"),
     Response(401, "Unauthorized", "text/plain", "token expired")}

Returned(value) == [state |-> "returned", value |-> value]
Raised(error) == [state |-> "raised", error |-> error]
Pending == [state |-> "pending"]

\* A parseResponse() whose message always ends with the reason phrase.
parseResponse_StatusText(resp) ==
    IF ~resp.ok
    THEN Raised(R2CError(<<"HTTP Error ", resp.status, ": ", resp.statusText>>,
                         Some(resp.status), Some(resp.headers), Some(resp.text)))
    ELSE IF resp.status = 204 THEN Returned(JsNull)
    ELSE IF IsJsonContentType(resp.contentType)
    THEN IF IsJson(resp.text) THEN Returned(JSONParse(resp.text))
         ELSE Raised(ForeignError("SyntaxError"))
    ELSE Returned(JsString(resp.text))

\* A parseResponse() that looks at the content type before the status 204.
parseResponse_ContentTypeFirst(resp) ==
    IF ~resp.ok
    THEN Raised(R2CError(<<"HTTP Error ", resp.status, ": ",
                           IF resp.text # "" THEN resp.text ELSE resp.statusText>>,
                         Some(resp.status), Some(resp.headers), Some(resp.text)))
    ELSE IF IsJsonContentType(resp.contentType)
    THEN IF IsJson(resp.text) THEN Returned(JSONParse(resp.text))
         ELSE Raised(ForeignError("SyntaxError"))
    ELSE IF resp.status = 204 THEN Returned(JsNull)
    ELSE Returned(JsString(resp.text))

\* A parseResponse() that parses every body it can as JSON, whatever the
\* content type.
parseResponse_SniffsJson(resp) ==
    IF ~resp.ok
    THEN Raised(R2CError(<<"HTTP Error ", resp.status, ": ",
                           IF resp.text # "" THEN resp.text ELSE resp.statusText>>,
                         Some(resp.status), Some(resp.headers), Some(resp.text)))
    ELSE IF resp.status = 204 THEN Returned(JsNull)
    ELSE IF IsJson(resp.text) THEN Returned(JSONParse(resp.text))
    ELSE IF IsJsonContentType(resp.contentType)
    THEN Raised(ForeignError("SyntaxError"))
    ELSE Returned(JsString(resp.text))

\* parseResponse(): response.json() rejects when the body is not JSON.
parseResponse(resp) ==
    IF ~resp.ok
    THEN Raised(R2CError(<<"HTTP Error ", resp.status, ": ",
                           IF resp.text # "" THEN resp.text ELSE resp.statusText>>,
                         Some(resp.status), Some(resp.headers), Some(resp.text)))
    ELSE IF resp.status = 204 THEN Returned(JsNull)
    ELSE IF IsJsonContentType(resp.contentType)
    THEN IF IsJson(resp.text) THEN Returned(JSONParse(resp.text))
         ELSE Raised(ForeignError("SyntaxError"))
    ELSE Returned(JsString(resp.text))

\* The reader parseResponse() calls on the response: text(), json() or none.
parseResponseReads(resp) ==
    IF ~resp.ok THEN "text"
    ELSE IF resp.status = 204 THEN "none"
    ELSE IF IsJsonContentType(resp.contentType) THEN "json"
    ELSE "text"

----------------------------------------------------------------------------
\* The verb operations and makeRequest()'s way from a RequestOptions to the
\* arguments of this.fetch.

\* Entries a query mapping holds at most.
MaxQueryLen == 2

\* Calls made on the two clients taken together.
MaxFleetCalls == 2

\* this.baseURL
BaseURL == "https://test-api.r2clive.com"

\* A query argument: absent (undefined), or a mapping held as the sequence
\* of its entries <<key, value>> in the order Object.entries() gives them.
NoQuery == [given |-> FALSE, entries |-> << >>]
Query(entries) == [given |-> TRUE, entries |-> entries]

QueryKeys == {"page", "limit", "q"}

QueryValues ==
    {JsUndefined, JsNull, JsNumber("0"), JsNumber("1"), JsBoolean("false"),
     JsString(""), JsString("a b")}

\* The mappings: no key occurs twice.
QueryEntries ==
    {q \in UNION {[1..n -> QueryKeys \X QueryValues] : n \in 0..MaxQueryLen} :
        \A i, j \in DOMAIN q : i # j => q[i][1] # q[j][1]}

Queries == {NoQuery} \cup {Query(q) : q \in QueryEntries}

Bodies ==
    {JsUndefined, JsNull, JsNumber("0"), JsNumber("1"), JsBoolean("false"),
     JsString(""), JsString("a"), JsObject("{}"),
     JsObject("{\"name\":\"Test\"}")}

\* A headers mapping (Record<string, string>) as the set of its entries
\* <<name, value>>, a value being the sequence of its pieces; no name
\* occurs twice.
NoHeaders == {}

HeaderNames(headers) == {h[1] : h \in headers}

\* The entries of a mapping held as a record.
HeaderEntries(record) == {<<name, record[name]>> : name \in DOMAIN record}

\* The header mappings a caller passes.
CallerHeaders ==
    {NoHeaders,
     {<<"X-Request-Id", <<"r1">>>>},
     {<<"Content-Type", <<"text/plain">>>>},
     {<<"content-type", <<"text/plain">>>>},
     {<<"Authorization", <<"Bearer", "other">>>>},
     {<<"Content-Type", <<"text/plain">>>>,
      <<"Authorization", <<"Bearer", "other">>>>,
      <<"X-Request-Id", <<"r1">>>>}}

\* An object with some of the keys path, method, query, body and headers:
\* keys tells which ones it has.  No object at all (undefined) spreads as
\* one without keys.
Options(keys, path, method, query, body) ==
    [keys |-> keys, path |-> path, method |-> method, query |-> query,
     body |-> body, headers |-> NoHeaders]

\* { ...opts, headers }
WithHeaders(opts, headers) ==
    [opts EXCEPT !.keys = @ \cup {"headers"}, !.headers = headers]

NoOpts == Options({}, "", "", NoQuery, JsUndefined)

\* { ...base, ...over }: a key of over replaces the same key of base.
Spread(base, over) ==
    [keys |-> base.keys \cup over.keys,
     path |-> IF "path" \in over.keys THEN over.path ELSE base.path,
     method |-> IF "method" \in over.keys THEN over.method ELSE base.method,
     query |-> IF "query" \in over.keys THEN over.query ELSE base.query,
     body |-> IF "body" \in over.keys THEN over.body ELSE base.body,
     headers |-> IF "headers" \in over.keys THEN over.headers ELSE base.headers]

\* The options argument of get, post, patch and delete (RequestOptions, in
\* which path is required) and that of getWithQuery (RequestInit without
\* method).
VerbOptions ==
    {NoOpts,
     Options({"path"}, "/test", "", NoQuery, JsUndefined),
     Options({"path"}, "/other", "", NoQuery, JsUndefined),
     Options({"path", "method"}, "/test", "POST", NoQuery, JsUndefined),
     Options({"path", "method"}, "/test", "GET", NoQuery, JsUndefined),
     Options({"path", "body"}, "/test", "", NoQuery, JsObject("{}")),
     Options({"path", "query"}, "/test", "", Query(<< <<"page", JsNumber("1")>> >>),
             JsUndefined)}
    \cup {WithHeaders(Options({"path"}, "/test", "", NoQuery, JsUndefined), h) :
            h \in CallerHeaders}

QueryCallOptions ==
    {NoOpts, Options({"body"}, "", "", NoQuery, JsString("raw"))}
    \cup {WithHeaders(NoOpts, h) : h \in CallerHeaders}

\* A call of one of the verb operations with its arguments.
Invocation(op, path, query, body, opts) ==
    [op |-> op, path |-> path, query |-> query, body |-> body, options |-> opts]

NoInvocation == [op |-> "none"]
NoDescriptor == [keys |-> {"none"}]
NoWire == [url |-> << >>]

Invocations ==
    {Invocation(op, "/test", NoQuery, JsUndefined, o) :
        op \in {"get", "delete"}, o \in VerbOptions}
    \cup {Invocation(op, "/test", NoQuery, b, o) :
        op \in {"post", "patch"}, b \in Bodies, o \in VerbOptions}
    \cup {Invocation("getWithQuery", "/test", q, JsUndefined, o) :
        q \in Queries, o \in QueryCallOptions}

\* get / getWithQuery / post / patch / delete: the object handed to
\* makeRequest().
VerbDescriptor(inv) ==
    CASE inv.op = "get" ->
            Spread(Options({"path", "method"}, inv.path, "GET", NoQuery, JsUndefined),
                   inv.options)
      [] inv.op = "getWithQuery" ->
            Spread(Options({"path", "method", "query"}, inv.path, "GET", inv.query,
                           JsUndefined),
                   inv.options)
      [] inv.op = "post" ->
            Spread(Options({"path", "method", "body"}, inv.path, "POST", NoQuery,
                           inv.body),
                   inv.options)
      [] inv.op = "patch" ->
            Spread(Options({"path", "method", "body"}, inv.path, "PATCH", NoQuery,
                           inv.body),
                   inv.options)
      [] inv.op = "delete" ->
            Spread(Options({"path", "method"}, inv.path, "DELETE", NoQuery,
                           JsUndefined),
                   inv.options)

\* URLSearchParams' serialisation of a name or a value
\* (application/x-www-form-urlencoded): a space becomes '+'.
FormEncode(str) == IF str = "a b" THEN "a+b" ELSE str

\* A loop that appends the truthy values only.
QueryParams_Truthy(entries) ==
    LET kept == SelectSeq(entries, LAMBDA e : JsTruthy(e[2]))
    IN  [i \in DOMAIN kept |-> <<kept[i][1], String(kept[i][2])>>]

\* The forEach of makeRequest(): params.append(key, String(value)) for each
\* entry whose value is neither undefined nor null.
QueryParams(entries) ==
    LET kept == SelectSeq(entries, LAMBDA e : e[2] # JsUndefined /\ e[2] # JsNull)
    IN  [i \in DOMAIN kept |-> <<kept[i][1], String(kept[i][2])>>]

\* params.toString(), as the sequence of its pieces: name=value, '&', ...
RECURSIVE ParamsToString(_)
ParamsToString(params) ==
    IF params = << >> THEN << >>
    ELSE LET piece == FormEncode(params[1][1]) \o "=" \o FormEncode(params[1][2])
         IN  IF Len(params) = 1 THEN <<piece>>
             ELSE <<piece, "&">> \o ParamsToString(Tail(params))

\* The url of makeRequest(), as the sequence of its pieces.
RequestURL(path, query) ==
    LET queryString == IF query.given
                       THEN ParamsToString(QueryParams(query.entries))
                       ELSE << >>
    IN  <<BaseURL, path>>
          \o (IF queryString # << >> THEN <<"?">> \o queryString ELSE << >>)

\* The body of the request: absent, or a text.
NoBody == [present |-> FALSE, text |-> ""]
BodyText(text) == [present |-> TRUE, text |-> text]

\* body ? JSON.stringify(body) : undefined
RequestBody(body) ==
    IF JsTruthy(body) THEN BodyText(JSONStringify(body)) ELSE NoBody

\* A merge in which an entry of the first mapping stays when the second has
\* the same name.
MergeHeaders_DefaultsWin(defaults, over) ==
    defaults \cup {h \in over : h[1] \notin HeaderNames(defaults)}

\* { ...defaults, ...over }: an entry of over replaces the entry of
\* defaults with the same name, letter for letter.
MergeHeaders(defaults, over) ==
    {h \in defaults : h[1] \notin HeaderNames(over)} \cup over

\* defaultHeaders(), given what authHeaders() returned.
defaultHeaders(authHeaders) ==
    MergeHeaders({<<"Content-Type", <<"application/json">>>>},
                 HeaderEntries(authHeaders))

\* The headers of the request for descriptor d: the defaults, then
\* init.headers (a descriptor without the key spreads nothing).
RequestHeaders(authHeaders, d) ==
    MergeHeaders(defaultHeaders(authHeaders),
                 IF "headers" \in d.keys THEN d.headers ELSE NoHeaders)

\* The arguments makeRequest() hands to this.fetch for descriptor d, on a
\* client with a static token.
Wire(d) ==
    [url |-> RequestURL(d.path, d.query), method |-> d.method,
     headers |-> RequestHeaders(AuthorizationHeader(bearerToken), d),
     body |-> RequestBody(d.body)]

\* A verb operation is called; makeRequest() runs up to this.fetch.
VerbCall ==
    /\ invocation # NoInvocation
    /\ wire = NoWire
    /\ descriptor' = VerbDescriptor(invocation)
    /\ wire' = Wire(VerbDescriptor(invocation))
    /\ UNCHANGED << invocation, clientVars, responseVars, fleetVars >>

\* parseResponse() runs on a response.
ResponseParsed ==
    /\ response # NoResponse
    /\ outcome = Pending
    /\ outcome' = parseResponse(response)
    /\ bodyRead' = parseResponseReads(response)
    /\ UNCHANGED << response, clientVars, requestVars, fleetVars >>

----------------------------------------------------------------------------
\* Calls and promises.

NoCall == [kind |-> "none", pc |-> "new", p |-> 0, auth |-> null, out |-> Pending]
NoExchange == [stage |-> "none"]

Unsettled(e) == exch[e].stage \in {"fetch", "body"}
Settled(e) == exch[e].stage \in {"fulfilled", "rejected"}

\* A resolution whose header is built from the cache when it holds a token.
AfterResolution_FromCache(kind, p, token) ==
    LET used == IF tokenCache # NoCache THEN tokenCache.access_token ELSE token
    IN  IF kind = "dispatch"
        THEN [kind |-> kind, pc |-> "fetch", p |-> p, auth |-> used, out |-> Pending]
        ELSE [kind |-> kind, pc |-> "done", p |-> p, auth |-> used,
              out |-> Returned(AuthorizationHeader(used))]

\* A call whose token resolution produced token: authHeaders() returns the
\* header; makeRequest() goes on to the resource transport call.  The awaits
\* between the resolution and that call read no field of the client, so
\* the stretch is one step.
AfterResolution(kind, p, token) ==
    IF kind = "dispatch"
    THEN [kind |-> kind, pc |-> "fetch", p |-> p, auth |-> token, out |-> Pending]
    ELSE [kind |-> kind, pc |-> "done", p |-> p, auth |-> token,
          out |-> Returned(AuthorizationHeader(token))]

\* A dispatch that goes on to the transport without a token when its
\* resolution raised.
AfterFailure_GoesOn(kind, p, error) ==
    IF kind = "dispatch"
    THEN [kind |-> kind, pc |-> "fetch", p |-> p, auth |-> null, out |-> Pending]
    ELSE [kind |-> kind, pc |-> "done", p |-> p, auth |-> null, out |-> Raised(error)]

\* A resolution that replaces the error by one of its own.
AfterFailure_Rewrapped(kind, p, error) ==
    [kind |-> kind, pc |-> "done", p |-> p, auth |-> null,
     out |-> Raised(R2CError(<<"Authentication failed">>, Undefined, Undefined, Undefined))]

\* A call whose token resolution raised: the error reaches the caller.
AfterFailure(kind, p, error) ==
    [kind |-> kind, pc |-> "done", p |-> p, auth |-> null, out |-> Raised(error)]

Awaiting(kind, p) ==
    [kind |-> kind, pc |-> "await", p |-> p, auth |-> null, out |-> Pending]

\* A dispatch that sends its request twice.
ResourceCallsAfter_Twice(kind) ==
    IF kind = "dispatch" THEN resourceCalls + 2 ELSE resourceCalls

ResourceCallsAfter(kind) ==
    IF kind = "dispatch" THEN resourceCalls + 1 ELSE resourceCalls

\* authHeaders() (kind "resolve") or makeRequest() (kind "dispatch") is
\* called and runs to its first suspension point.
Start(kind) ==
    /\ constructed = "ok"
    /\ nCalls < MaxCalls
    /\ LET c == nCalls + 1
           path == authHeadersPath(bearerToken, oauthCredentials)
           way == getOAuthTokenPath(tokenCache, refreshPromise, now)
       IN  /\ nCalls' = c
           /\ \/ /\ path = "none"
                 /\ calls' = [calls EXCEPT ![c] = AfterFailure(kind, 0, NoAuthError)]
                 /\ UNCHANGED << exch, refreshPromise, identityCalls, resourceCalls >>
              \/ /\ path = "bearer"
                 /\ calls' = [calls EXCEPT ![c] = AfterResolution(kind, 0, bearerToken)]
                 /\ resourceCalls' = ResourceCallsAfter(kind)
                 /\ UNCHANGED << exch, refreshPromise, identityCalls >>
              \/ /\ path = "oauth" /\ way = "cached"
                 /\ calls' = [calls EXCEPT
                                ![c] = AfterResolution(kind, 0, tokenCache.access_token)]
                 /\ resourceCalls' = ResourceCallsAfter(kind)
                 /\ UNCHANGED << exch, refreshPromise, identityCalls >>
              \/ /\ path = "oauth" /\ way = "join"
                 /\ calls' = [calls EXCEPT ![c] = Awaiting(kind, refreshPromise)]
                 /\ UNCHANGED << exch, refreshPromise, identityCalls, resourceCalls >>
              \/ /\ path = "oauth" /\ way = "start"
                 /\ exch' = [exch EXCEPT ![c] = [stage |-> "fetch", started |-> now]]
                 /\ identityCalls' = identityCalls + 1
                 /\ refreshPromise' = c
                 /\ calls' = [calls EXCEPT ![c] = Awaiting(kind, c)]
                 /\ UNCHANGED resourceCalls
    /\ lastOp' = "other"
    /\ UNCHANGED << requestVars, responseVars, fleetVars >>
    /\ UNCHANGED << constructed, options, ctorError, bearerToken,
                    oauthCredentials, tokenCache, now >>

\* The transport settles the token-exchange call: it rejects, or it hands
\* fetchOAuthToken() a response whose body is then read.
IdentitySettles(e, resp) ==
    /\ exch[e].stage = "fetch"
    /\ exch' = [exch EXCEPT ![e] =
                  IF resp.settle = "rejected"
                  THEN [stage |-> "rejected", started |-> exch[e].started,
                        value |-> null, error |-> ForeignError("TransportError")]
                  ELSE [stage |-> "body", started |-> exch[e].started,
                        resp |-> resp]]
    /\ lastOp' = "other"
    /\ UNCHANGED << requestVars, responseVars, fleetVars >>
    /\ UNCHANGED << constructed, options, ctorError, bearerToken,
                    oauthCredentials, tokenCache, refreshPromise, now, calls,
                    nCalls, identityCalls, resourceCalls >>

\* fetchOAuthToken() resumes with the body read, and its promise settles.
ExchangeSettles(e) ==
    /\ exch[e].stage = "body"
    /\ LET r == fetchOAuthTokenSettle(exch[e].resp, tokenCache, now)
       IN  /\ exch' = [exch EXCEPT ![e] =
                         [stage |-> r.stage, started |-> exch[e].started,
                          value |-> r.value, error |-> r.error]]
           /\ tokenCache' = r.cache
    /\ lastOp' = "other"
    /\ UNCHANGED << requestVars, responseVars, fleetVars >>
    /\ UNCHANGED << constructed, options, ctorError, bearerToken,
                    oauthCredentials, refreshPromise, now, calls, nCalls,
                    identityCalls, resourceCalls >>

\* A resumption that reads the token from the cache.
AwaitedValue_FromCache(p) ==
    IF tokenCache = NoCache THEN null ELSE tokenCache.access_token

\* await this.refreshPromise: the value the promise was fulfilled with.
AwaitedValue(p) == exch[p].value

\* A getOAuthToken() without the finally block.
RefreshPromiseAfter_Kept(c, p, promise) == promise

\* The finally block of getOAuthToken(): only the call that created the
\* promise runs it.
RefreshPromiseAfter(c, p, promise) == IF c = p THEN 0 ELSE promise

\* The reactions of a promise run in the order the awaits were made, and the
\* call that created the promise awaits it in the step that created it: a
\* call that joined resumes after the creator has.
ResumesInOrder(c, p) == c = p \/ calls[p].pc # "await"

\* A call awaiting a settled promise resumes.
Resume(c) ==
    /\ calls[c].pc = "await"
    /\ Settled(calls[c].p)
    /\ ResumesInOrder(c, calls[c].p)
    /\ LET p == calls[c].p
           kind == calls[c].kind
       IN  /\ IF exch[p].stage = "fulfilled"
              THEN /\ calls' = [calls EXCEPT ![c] = AfterResolution(kind, p, AwaitedValue(p))]
                   /\ resourceCalls' = ResourceCallsAfter(kind)
              ELSE /\ calls' = [calls EXCEPT ![c] = AfterFailure(kind, p, exch[p].error)]
                   /\ UNCHANGED resourceCalls
           /\ refreshPromise' = RefreshPromiseAfter(c, p, refreshPromise)
    /\ lastOp' = "other"
    /\ UNCHANGED << requestVars, responseVars, fleetVars >>
    /\ UNCHANGED << constructed, options, ctorError, bearerToken,
                    oauthCredentials, tokenCache, now, exch, nCalls,
                    identityCalls >>

\* The transport settles a resource call and parseResponse() runs.
ResourceSettles(c, resp) ==
    /\ calls[c].pc = "fetch"
    /\ calls' = [calls EXCEPT ![c].pc = "done",
                              ![c].out = IF resp.settle = "rejected"
                                         THEN Raised(ForeignError("TransportError"))
                                         ELSE parseResponse(resp)]
    /\ lastOp' = "other"
    /\ UNCHANGED << requestVars, responseVars, fleetVars >>
    /\ UNCHANGED << constructed, options, ctorError, bearerToken,
                    oauthCredentials, tokenCache, refreshPromise, now, exch,
                    nCalls, identityCalls, resourceCalls >>

\* A clearToken() that leaves the cache as it is.
clearTokenCache_Keep == tokenCache

\* A clearToken() that marks the cached token as expired and keeps it.
clearTokenCache_Expire ==
    IF tokenCache = NoCache THEN NoCache
    ELSE TokenCache(tokenCache.access_token, 0)

\* clearToken()
clearTokenCache == NoCache

clearToken ==
    /\ constructed = "ok"
    /\ tokenCache' = clearTokenCache
    /\ lastOp' = "clearToken"
    /\ UNCHANGED << requestVars, responseVars, fleetVars >>
    /\ UNCHANGED << constructed, options, ctorError, bearerToken,
                    oauthCredentials, refreshPromise, now, calls, exch, nCalls,
                    identityCalls, resourceCalls >>

\* setToken(token, expiresIn)
setTokenCache(token, expiresIn, t) == TokenCache(token, t + expiresIn * 1000)

setToken(token, expiresIn) ==
    /\ constructed = "ok"
    /\ tokenCache' = setTokenCache(token, expiresIn, now)
    /\ lastOp' = "other"
    /\ UNCHANGED << requestVars, responseVars, fleetVars >>
    /\ UNCHANGED << constructed, options, ctorError, bearerToken,
                    oauthCredentials, refreshPromise, now, calls, exch, nCalls,
                    identityCalls, resourceCalls >>

\* Time passes.
Tick(d) ==
    /\ constructed = "ok"
    /\ now + d <= MaxNow
    /\ now' = now + d
    /\ lastOp' = "other"
    /\ UNCHANGED << requestVars, responseVars, fleetVars >>
    /\ UNCHANGED << constructed, options, ctorError, bearerToken,
                    oauthCredentials, tokenCache, refreshPromise, calls, exch,
                    nCalls, identityCalls, resourceCalls >>

----------------------------------------------------------------------------
\* Two OAuth clients side by side.  tokenCache and refreshPromise are
\* instance fields: a method running on client i reads and writes the
\* fields of this.

ClientIds == {1, 2}
FleetCallIds == 1..MaxFleetCalls

\* Fields shared by all instances (static).
Owner_Shared(i) == 1

\* this, for a method called on client i.
Owner(i) == i

NoStore == [tokenCache |-> NoCache, refreshPromise |-> 0]

NoFleet ==
    [store |-> [i \in ClientIds |-> NoStore],
     calls |-> [c \in FleetCallIds |-> NoCall],
     exch |-> [c \in FleetCallIds |-> NoExchange],
     client |-> [c \in FleetCallIds |-> 0],
     nCalls |-> 0,
     actor |-> 0]

\* What the identity endpoint answers the two clients.
FleetIdentityResponses ==
    {HttpFailure(401, "bad creds"), TokenBody("a", 120), TokenBody("b", 60)}

\* What the resource endpoint answers them.
FleetResourceResponses ==
    {Response(200, "OK", "application/json", "{}")}

\* The lifetime of the tokens set by hand on them.
FleetLifetimes == {120}

\* authHeaders() or makeRequest() is called on client i and runs to its
\* first suspension point.
FleetStart(i, kind) ==
    /\ fleet.nCalls < MaxFleetCalls
    /\ LET c == fleet.nCalls + 1
           this == Owner(i)
           way == getOAuthTokenPath(fleet.store[this].tokenCache,
                                    fleet.store[this].refreshPromise, now)
       IN  fleet' =
             [fleet EXCEPT
                !.nCalls = c,
                !.client[c] = i,
                !.actor = i,
                !.calls[c] =
                    CASE way = "cached" ->
                            AfterResolution(kind, 0,
                                            fleet.store[this].tokenCache.access_token)
                      [] way = "join" ->
                            Awaiting(kind, fleet.store[this].refreshPromise)
                      [] way = "start" -> Awaiting(kind, c),
                !.exch[c] = IF way = "start"
                            THEN [stage |-> "fetch", started |-> now]
                            ELSE @,
                !.store[this].refreshPromise = IF way = "start" THEN c ELSE @]
    /\ UNCHANGED << clientVars, requestVars, responseVars >>

\* The transport settles the token-exchange call of exchange e.
FleetIdentitySettles(e, resp) ==
    /\ fleet.exch[e].stage = "fetch"
    /\ fleet' =
          [fleet EXCEPT
             !.actor = fleet.client[e],
             !.exch[e] =
                 IF resp.settle = "rejected"
                 THEN [stage |-> "rejected", started |-> @.started,
                       value |-> null, error |-> ForeignError("TransportError")]
                 ELSE [stage |-> "body", started |-> @.started, resp |-> resp]]
    /\ UNCHANGED << clientVars, requestVars, responseVars >>

\* fetchOAuthToken() of exchange e resumes with the body read, on the
\* client that called it.
FleetExchangeSettles(e) ==
    /\ fleet.exch[e].stage = "body"
    /\ LET this == Owner(fleet.client[e])
           r == fetchOAuthTokenSettle(fleet.exch[e].resp,
                                      fleet.store[this].tokenCache, now)
       IN  fleet' =
             [fleet EXCEPT
                !.actor = fleet.client[e],
                !.exch[e] = [stage |-> r.stage, started |-> @.started,
                             value |-> r.value, error |-> r.error],
                !.store[this].tokenCache = r.cache]
    /\ UNCHANGED << clientVars, requestVars, responseVars >>

\* A call awaiting a settled promise resumes, after the promise's creator.
FleetResume(c) ==
    /\ fleet.calls[c].pc = "await"
    /\ fleet.exch[fleet.calls[c].p].stage \in {"fulfilled", "rejected"}
    /\ c = fleet.calls[c].p \/ fleet.calls[fleet.calls[c].p].pc # "await"
    /\ LET p == fleet.calls[c].p
           kind == fleet.calls[c].kind
           this == Owner(fleet.client[c])
       IN  fleet' =
             [fleet EXCEPT
                !.actor = fleet.client[c],
                !.calls[c] =
                    IF fleet.exch[p].stage = "fulfilled"
                    THEN AfterResolution(kind, p, fleet.exch[p].value)
                    ELSE AfterFailure(kind, p, fleet.exch[p].error),
                !.store[this].refreshPromise = RefreshPromiseAfter(c, p, @)]
    /\ UNCHANGED << clientVars, requestVars, responseVars >>

\* The transport settles a resource call and parseResponse() runs.
FleetResourceSettles(c, resp) ==
    /\ fleet.calls[c].pc = "fetch"
    /\ fleet' =
          [fleet EXCEPT
             !.actor = fleet.client[c],
             !.calls[c].pc = "done",
             !.calls[c].out = IF resp.settle = "rejected"
                              THEN Raised(ForeignError("TransportError"))
                              ELSE parseResponse(resp)]
    /\ UNCHANGED << clientVars, requestVars, responseVars >>

\* clearToken() on client i
FleetClearToken(i) ==
    /\ fleet' = [fleet EXCEPT !.actor = i,
                              !.store[Owner(i)].tokenCache = clearTokenCache]
    /\ UNCHANGED << clientVars, requestVars, responseVars >>

\* setToken(token, expiresIn) on client i
FleetSetToken(i, token, expiresIn) ==
    /\ fleet' = [fleet EXCEPT
                   !.actor = i,
                   !.store[Owner(i)].tokenCache = setTokenCache(token, expiresIn, now)]
    /\ UNCHANGED << clientVars, requestVars, responseVars >>

----------------------------------------------------------------------------

Init ==
    /\ constructed = "new"
    /\ options \in CtorOptions
    /\ ctorError = "none"
    /\ bearerToken = null
    /\ oauthCredentials = FALSE
    /\ tokenCache = NoCache
    /\ refreshPromise = 0
    /\ now = 0
    /\ calls = [c \in CallIds |-> NoCall]
    /\ exch = [c \in CallIds |-> NoExchange]
    /\ nCalls = 0
    /\ identityCalls = 0
    /\ resourceCalls = 0
    /\ lastOp = "other"
    /\ invocation = NoInvocation
    /\ descriptor = NoDescriptor
    /\ wire = NoWire
    /\ response = NoResponse
    /\ outcome = Pending
    /\ bodyRead = "none"
    /\ fleet = NoFleet

Next ==
    \/ Construct
    \/ \E kind \in {"resolve", "dispatch"} : Start(kind)
    \/ \E e \in CallIds, resp \in IdentityResponses : IdentitySettles(e, resp)
    \/ \E e \in CallIds : ExchangeSettles(e)
    \/ \E c \in CallIds : Resume(c)
    \/ \E c \in CallIds, resp \in ResourceResponses : ResourceSettles(c, resp)
    \/ clearToken
    \/ \E token \in ManualTokens, expiresIn \in Lifetimes : setToken(token, expiresIn)
    \/ \E d \in ClockSteps : Tick(d)

Spec == Init /\ [][Next]_vars

\* A client after its construction, with OAuth credentials or with a
\* static token, and the calls made on it.
InitLive ==
    /\ constructed = "ok"
    /\ options = NoOptions
    /\ ctorError = "none"
    /\ \/ bearerToken = null /\ oauthCredentials = TRUE
       \/ bearerToken = StaticToken /\ oauthCredentials = FALSE
    /\ tokenCache = NoCache
    /\ refreshPromise = 0
    /\ now = 0
    /\ calls = [c \in CallIds |-> NoCall]
    /\ exch = [c \in CallIds |-> NoExchange]
    /\ nCalls = 0
    /\ identityCalls = 0
    /\ resourceCalls = 0
    /\ lastOp = "other"
    /\ invocation = NoInvocation
    /\ descriptor = NoDescriptor
    /\ wire = NoWire
    /\ response = NoResponse
    /\ outcome = Pending
    /\ bodyRead = "none"
    /\ fleet = NoFleet

\* What the transport settles the calls of that client with: the identity
\* endpoint rejects, refuses, or issues a token that does not count as
\* valid or one that does; the resource endpoint rejects or answers.
LiveIdentityResponses ==
    {Rejected, HttpFailure(401, "bad creds"), TokenBody("a", 60),
     TokenBody("b", 120)}

LiveResourceResponses ==
    {ResourceRejected, Response(200, "OK", "application/json", "{}")}

LiveLifetimes == {120}

NextLive ==
    \/ \E kind \in {"resolve", "dispatch"} : Start(kind)
    \/ \E e \in CallIds, resp \in LiveIdentityResponses : IdentitySettles(e, resp)
    \/ \E e \in CallIds : ExchangeSettles(e)
    \/ \E c \in CallIds : Resume(c)
    \/ \E c \in CallIds, resp \in LiveResourceResponses : ResourceSettles(c, resp)
    \/ clearToken
    \/ \E token \in ManualTokens, expiresIn \in LiveLifetimes :
          setToken(token, expiresIn)

\* The injected transport settles every call it is given (the token
\* exchange, the reading of its body, the resource call), and the job queue
\* runs the continuation of every call whose promise has settled.
Fairness ==
    /\ \A e \in CallIds :
          WF_vars(\E resp \in LiveIdentityResponses : IdentitySettles(e, resp))
    /\ \A e \in CallIds : WF_vars(ExchangeSettles(e))
    /\ \A c \in CallIds : WF_vars(Resume(c))
    /\ \A c \in CallIds :
          WF_vars(\E resp \in LiveResourceResponses : ResourceSettles(c, resp))

SpecLive == InitLive /\ [][NextLive]_vars /\ Fairness

\* A client holding the static bearer token, with no call made.
ClientAtRest ==
    /\ constructed = "ok"
    /\ options = NoOptions
    /\ ctorError = "none"
    /\ bearerToken = StaticToken
    /\ oauthCredentials = FALSE
    /\ tokenCache = NoCache
    /\ refreshPromise = 0
    /\ now = 0
    /\ calls = [c \in CallIds |-> NoCall]
    /\ exch = [c \in CallIds |-> NoExchange]
    /\ nCalls = 0
    /\ identityCalls = 0
    /\ resourceCalls = 0
    /\ lastOp = "other"

\* The verb operations on every invocation.
InitRequest ==
    /\ ClientAtRest
    /\ invocation \in Invocations
    /\ descriptor = NoDescriptor
    /\ wire = NoWire
    /\ response = NoResponse
    /\ outcome = Pending
    /\ bodyRead = "none"
    /\ fleet = NoFleet

NextRequest == VerbCall

SpecRequest == InitRequest /\ [][NextRequest]_vars

\* parseResponse() on every response.
InitResponse ==
    /\ ClientAtRest
    /\ invocation = NoInvocation
    /\ descriptor = NoDescriptor
    /\ wire = NoWire
    /\ response \in Responses
    /\ outcome = Pending
    /\ bodyRead = "none"
    /\ fleet = NoFleet

NextResponse == ResponseParsed

SpecResponse == InitResponse /\ [][NextResponse]_vars

\* Two clients with their calls, exchanges, setToken() and clearToken().
InitFleet ==
    /\ ClientAtRest
    /\ invocation = NoInvocation
    /\ descriptor = NoDescriptor
    /\ wire = NoWire
    /\ response = NoResponse
    /\ outcome = Pending
    /\ bodyRead = "none"
    /\ fleet = NoFleet

NextFleet ==
    \/ \E i \in ClientIds, kind \in {"resolve", "dispatch"} : FleetStart(i, kind)
    \/ \E e \in FleetCallIds, resp \in FleetIdentityResponses :
          FleetIdentitySettles(e, resp)
    \/ \E e \in FleetCallIds : FleetExchangeSettles(e)
    \/ \E c \in FleetCallIds : FleetResume(c)
    \/ \E c \in FleetCallIds, resp \in FleetResourceResponses :
          FleetResourceSettles(c, resp)
    \/ \E i \in ClientIds : FleetClearToken(i)
    \/ \E i \in ClientIds, token \in ManualTokens, expiresIn \in FleetLifetimes :
          FleetSetToken(i, token, expiresIn)

SpecFleet == InitFleet /\ [][NextFleet]_vars

----------------------------------------------------------------------------
\* Shorthands for the properties.

Started == 1..nCalls

\* The calls that sent a request to the identity endpoint.
Starters == {c \in Started : calls[c].p = c}

\* The calls that awaited a promise they did not create.
Joiners == {c \in Started : calls[c].p \notin {0, c}}

\* The call's token resolution is over and gave it a token.
Resolved(c) == calls[c].pc \in {"fetch", "done"} /\ calls[c].auth # null

----------------------------------------------------------------------------
\* C1. In OAuth mode the resolutions started without a valid cached token
\* while an exchange has not completed share that one exchange: every call
\* waiting for an exchange that has not settled waits for the promise in
\* refreshPromise, the identity endpoint has been called once per call that
\* created a promise and never by a call that joined one, and all the calls
\* an exchange served received the access token it was fulfilled with.
C1_OneExchangeSharedToken ==
    oauthCredentials =>
        /\ \A c \in Started :
              (calls[c].pc = "await" /\ Unsettled(calls[c].p))
                  => calls[c].p = refreshPromise
        /\ identityCalls = Cardinality(Starters)
        /\ \A c \in Started :
              (calls[c].p # 0 /\ Resolved(c))
                  => /\ exch[calls[c].p].stage = "fulfilled"
                     /\ calls[c].auth = exch[calls[c].p].value
        /\ \A c, d \in Started :
              (calls[c].p # 0 /\ calls[c].p = calls[d].p /\ Resolved(c) /\ Resolved(d))
                  => calls[c].auth = calls[d].auth

\* Two calls were served by one exchange, one call to the identity endpoint
\* was made, and both hold the token of that exchange.
C1_Witness ==
    /\ oauthCredentials
    /\ identityCalls = 1
    /\ \E c, d \in Started :
          /\ c # d
          /\ calls[c].p = c /\ calls[d].p = c
          /\ calls[c].pc = "done" /\ calls[d].pc = "done"
          /\ calls[c].out = Returned(AuthorizationHeader("a"))
          /\ calls[d].out = Returned(AuthorizationHeader("a"))

----------------------------------------------------------------------------
\* C2. At most one exchange of a client is outstanding: at most one promise
\* of fetchOAuthToken() has its transport call pending or its body being
\* read.
C2_AtMostOneExchange ==
    Cardinality({e \in CallIds : Unsettled(e)}) <= 1

\* A second exchange is outstanding after a first one has settled, with a
\* token set by hand in between.
C2_Witness ==
    /\ Settled(1)
    /\ exch[2].stage = "fetch"
    /\ tokenCache # NoCache /\ tokenCache.access_token \in ManualTokens

----------------------------------------------------------------------------
\* C3. When an exchange fails, every call that created or joined its promise
\* ends raising the error that promise was rejected with, makes no resource
\* call, and no call that joined a promise ever sent a request to the
\* identity endpoint of its own.
C3_SharedFailure ==
    /\ \A c \in Started :
          (calls[c].p # 0 /\ calls[c].pc # "await"
             /\ exch[calls[c].p].stage = "rejected")
              => /\ calls[c].pc = "done"
                 /\ calls[c].out = Raised(exch[calls[c].p].error)
    /\ \A c \in Joiners : exch[c].stage = "none"
    /\ identityCalls = Cardinality({e \in CallIds : exch[e].stage # "none"})

\* Two calls shared an exchange that the identity endpoint refused with 401,
\* and both raised that error.
C3_Witness ==
    /\ identityCalls = 1
    /\ \E c, d \in Started :
          /\ c # d
          /\ calls[c].p = c /\ calls[d].p = c
          /\ exch[c].stage = "rejected"
          /\ exch[c].error.status = Some(401)
          /\ calls[c].out = Raised(exch[c].error)
          /\ calls[d].out = Raised(exch[c].error)

----------------------------------------------------------------------------
\* Steps of the properties below.

\* This step is a call of authHeaders() or makeRequest(); the call's id is
\* nCalls'.
IsStart == nCalls' = nCalls + 1

\* The call made in this step started an exchange of its own.
StartsExchange ==
    /\ identityCalls' = identityCalls + 1
    /\ exch[nCalls'].stage = "none" /\ exch'[nCalls'].stage = "fetch"
    /\ refreshPromise' = nCalls'
    /\ calls'[nCalls'].pc = "await" /\ calls'[nCalls'].p = nCalls'

\* The call made in this step awaits the promise refreshPromise held and
\* sends nothing.
JoinsPromise ==
    /\ identityCalls' = identityCalls
    /\ UNCHANGED << exch, refreshPromise >>
    /\ calls'[nCalls'].pc = "await" /\ calls'[nCalls'].p = refreshPromise

\* The call made in this step got token at once, without the transport's
\* identity endpoint and without touching the cache or the promise.
ServedAtOnce(token) ==
    /\ identityCalls' = identityCalls
    /\ UNCHANGED << exch, refreshPromise, tokenCache >>
    /\ calls'[nCalls'].p = 0
    /\ calls'[nCalls'].auth = token
    /\ calls'[nCalls'].pc \in {"fetch", "done"}
    /\ calls'[nCalls'].kind = "resolve"
          => calls'[nCalls'].out = Returned(AuthorizationHeader(token))

----------------------------------------------------------------------------
\* C4. refreshPromise holds the promise of an exchange for as long as that
\* exchange is outstanding and no longer once it has settled, so that a
\* call made after an exchange failed, with no valid cached token and no
\* other exchange outstanding, starts an exchange of its own instead of
\* observing the old failure.
C4_ClearedOnceSettled ==
    /\ [](\A e \in CallIds : Unsettled(e) => refreshPromise = e)
    /\ [][(/\ IsStart
           /\ oauthCredentials
           /\ ~isTokenValid(tokenCache, now)
           /\ \E e \in CallIds : exch[e].stage = "rejected"
           /\ ~\E e \in CallIds : Unsettled(e))
          => StartsExchange]_vars

----------------------------------------------------------------------------
\* The cached token passes the validity rule: expiry > now + 60 s.
CacheUsable ==
    tokenCache # NoCache /\ tokenCache.expires_at > now + TOKEN_BUFFER_MS

\* C5 as stated. In OAuth mode a call is served from the cache without the
\* transport exactly when the cached token's expiry is more than 60 s
\* ahead, and every call that finds the cache absent or stale starts one
\* exchange of its own.
C5_StaleStartsExchange ==
    [][(IsStart /\ oauthCredentials)
          => IF CacheUsable THEN ServedAtOnce(tokenCache.access_token)
             ELSE StartsExchange]_vars

\* C5, amended. In OAuth mode a call is served from the cache without the
\* transport exactly when the cached token's expiry is more than 60 s
\* ahead; a call that finds the cache absent or stale is never served from
\* it: it starts exactly one exchange when refreshPromise is null and
\* otherwise awaits the promise refreshPromise holds, sending nothing.
C5_CacheRule ==
    [][(IsStart /\ oauthCredentials)
          => IF CacheUsable THEN ServedAtOnce(tokenCache.access_token)
             ELSE /\ calls'[nCalls'].pc = "await"
                  /\ IF refreshPromise = 0 THEN StartsExchange ELSE JoinsPromise]_vars

\* A call was served from the cache, and after the clock reached the point
\* where the cached token expires in exactly 60 s, the next call started an
\* exchange.
C5_Witness ==
    /\ oauthCredentials
    /\ tokenCache # NoCache
    /\ tokenCache.expires_at = now + TOKEN_BUFFER_MS
    /\ calls[1].p = 0 /\ calls[1].auth = tokenCache.access_token
    /\ calls[2].p = 2 /\ exch[2].stage = "fetch"

----------------------------------------------------------------------------
\* C6 as stated. In OAuth mode a call made right after clearToken() always
\* starts an exchange of its own, also while an exchange is in flight.
C6_ClearThenFreshExchange ==
    [][(IsStart /\ oauthCredentials /\ lastOp = "clearToken")
          => StartsExchange]_vars

\* C6, amended. In OAuth mode a call made right after clearToken() starts
\* an exchange of its own, whatever the expiry of the token that was
\* cached, when refreshPromise is null; when refreshPromise is set the call
\* awaits that promise and sends nothing.
C6_ClearThenExchange ==
    [][(IsStart /\ oauthCredentials /\ lastOp = "clearToken")
          => /\ tokenCache = NoCache
             /\ IF refreshPromise = 0 THEN StartsExchange ELSE JoinsPromise]_vars

\* The first exchange brought token "b", which the identity endpoint only
\* issues for 120 s; the clock has not moved, the cache is empty again and
\* a second exchange is under way.
C6_Witness ==
    /\ oauthCredentials
    /\ now = 0
    /\ exch[1].stage = "fulfilled" /\ exch[1].value = "b"
    /\ calls[1].pc = "done"
    /\ refreshPromise = 2 /\ exch[2].stage = "fetch"
    /\ tokenCache = NoCache

----------------------------------------------------------------------------
\* The cache holds a token installed by setToken() that passes the
\* validity rule.  Only setToken() writes a token of ManualTokens.
ManualTokenUsable ==
    CacheUsable /\ tokenCache.access_token \in ManualTokens

\* C7 as stated. Whichever credentials the client holds, static bearer
\* token or OAuth, a call made while the cache holds a token installed by
\* setToken() whose expiry is more than 60 s ahead returns that token at
\* once, without the transport.
C7_SetTokenAnyMode ==
    [][(IsStart /\ (Truthy(bearerToken) \/ oauthCredentials) /\ ManualTokenUsable)
          => ServedAtOnce(tokenCache.access_token)]_vars

\* C7, amended. On a client with OAuth credentials, a call made while the
\* cache still holds the token installed by setToken() and its expiry is
\* more than 60 s ahead returns that token at once, without the transport,
\* also while an exchange is in flight.
C7_SetTokenOAuth ==
    [][(IsStart /\ oauthCredentials /\ ManualTokenUsable)
          => ServedAtOnce(tokenCache.access_token)]_vars

\* With an exchange in flight, a later call returned the token installed
\* by hand, and the identity endpoint has been called once only.
C7_Witness ==
    /\ oauthCredentials
    /\ identityCalls = 1
    /\ exch[1].stage = "fetch"
    /\ calls[2].p = 0
    /\ calls[2].out = Returned(AuthorizationHeader("m"))

----------------------------------------------------------------------------
\* The client holds a static bearer token and no OAuth credentials.
BearerOnly ==
    constructed = "ok" /\ Truthy(bearerToken) /\ ~oauthCredentials

\* C8. On a client constructed with only the static bearer token, whatever
\* calls of authHeaders(), makeRequest(), setToken() and clearToken() were
\* made, every resolution gave the static token (authHeaders() returned
\* Authorization: Bearer t1) and the identity endpoint was never called.
C8_StaticTokenOnly ==
    BearerOnly =>
        /\ identityCalls = 0
        /\ refreshPromise = 0
        /\ \A e \in CallIds : exch[e].stage = "none"
        /\ \A c \in Started :
              /\ calls[c].p = 0
              /\ calls[c].auth = bearerToken
              /\ calls[c].pc \in {"fetch", "done"}
              /\ calls[c].kind = "resolve"
                    => calls[c].out = Returned(AuthorizationHeader(StaticToken))

\* A dispatch is on its way with the static token and a resolution has
\* returned it, on a client whose cache was just cleared.
C8_Witness ==
    /\ BearerOnly
    /\ lastOp = "clearToken"
    /\ \E c, d \in Started :
          /\ calls[c].kind = "dispatch" /\ calls[c].pc = "fetch"
          /\ calls[c].auth = StaticToken
          /\ calls[d].out = Returned(AuthorizationHeader(StaticToken))

----------------------------------------------------------------------------
\* C9 as stated. Whenever the client holds a static bearer token, OAuth
\* credentials or not, a call gets that token at once, with no transport
\* call and the cache and the promise untouched.
C9_StaticTokenFirst ==
    [][(IsStart /\ Truthy(bearerToken)) => ServedAtOnce(bearerToken)]_vars

\* C9, amended. Whenever the client holds a static bearer token and no
\* OAuth credentials, a call gets that token at once, with no transport
\* call and whatever the cache holds, the cache and the promise untouched;
\* on a client that holds OAuth credentials as well, these take precedence
\* and the call is served from the cache or awaits an exchange.
C9_StaticTokenWithoutOAuth ==
    [][(IsStart /\ Truthy(bearerToken))
          => IF ~oauthCredentials THEN ServedAtOnce(bearerToken)
             ELSE IF CacheUsable THEN ServedAtOnce(tokenCache.access_token)
             ELSE calls'[nCalls'].pc = "await" /\ calls'[nCalls'].p # 0]_vars

\* A resolution returned the static token while the cache held a usable
\* token installed by hand.
C9_Witness ==
    /\ BearerOnly
    /\ ManualTokenUsable
    /\ resourceCalls = 0
    /\ \E c \in Started : calls[c].out = Returned(AuthorizationHeader(StaticToken))

----------------------------------------------------------------------------
\* An option counts as given when the constructor's test sees it: an
\* absent or empty bearerToken is not given.
NeitherGiven(opts) == ~Truthy(opts.bearerToken) /\ ~opts.oauthCredentials
BothGiven(opts) == Truthy(opts.bearerToken) /\ opts.oauthCredentials

\* C10. new R2CClient(options) throws exactly when neither bearerToken nor
\* oauthCredentials is given or both are, with the message of the case,
\* and succeeds when exactly one is given; no transport call precedes or
\* follows a failed construction.
C10_ConstructorChecks ==
    /\ [][(constructed = "new" /\ constructed' # "new" /\ options.via = "R2CClient")
             => /\ constructed' = "error"
                    <=> (NeitherGiven(options) \/ BothGiven(options))
                /\ constructed' = "ok"
                    <=> (Truthy(options.bearerToken) /= options.oauthCredentials)
                /\ NeitherGiven(options)
                    => ctorError' = "Either bearerToken or oauthCredentials is required"
                /\ BothGiven(options)
                    => ctorError' = "Cannot provide both bearerToken and oauthCredentials. Choose one authentication method."
                /\ constructed' = "ok"
                    => /\ bearerToken' = OrNull(options.bearerToken)
                       /\ oauthCredentials' = options.oauthCredentials
                /\ identityCalls' = 0 /\ resourceCalls' = 0]_vars
    /\ [](constructed = "error"
             => nCalls = 0 /\ identityCalls = 0 /\ resourceCalls = 0)

\* The constructor refused options that give both credentials.
C10_Witness ==
    /\ constructed = "error"
    /\ options.via = "R2CClient"
    /\ options.bearerToken = StaticToken /\ options.oauthCredentials
    /\ ctorError = "Cannot provide both bearerToken and oauthCredentials. Choose one authentication method."
    /\ identityCalls = 0 /\ resourceCalls = 0

----------------------------------------------------------------------------
\* The step in which fetchOAuthToken() of exchange e, having read the body
\* of the identity endpoint's response, settles its promise.
SettlesNow(e) == exch[e].stage = "body" /\ exch'[e].stage # "body"

\* Call c has come out of its token resolution with an error of exchange p.
FailedOn(c, p) ==
    /\ calls[c].p = p /\ calls[c].pc = "done"
    /\ exch[p].stage = "rejected"
    /\ calls[c].out = Raised(exch[p].error)

\* C11. When the identity endpoint answers an exchange with a non-success
\* status, the exchange's promise is rejected with an R2CError carrying that
\* status, the response's headers and the body text as read, its message
\* made of the status and the text; the cache is left as it was; and every
\* call of that exchange that has resumed raised this error.
C11_HttpFailureError ==
    /\ [][\A e \in CallIds :
             (SettlesNow(e) /\ ~exch[e].resp.ok)
                 => /\ exch'[e].stage = "rejected"
                    /\ exch'[e].error =
                          R2CError(<<"Authentication failed: ", exch[e].resp.status,
                                     " ", exch[e].resp.text>>,
                                   Some(exch[e].resp.status),
                                   Some(exch[e].resp.headers),
                                   Some(exch[e].resp.text))
                    /\ tokenCache' = tokenCache]_vars
    /\ [](\A c \in Started :
             (calls[c].p # 0 /\ calls[c].pc # "await"
                /\ exch[calls[c].p].stage = "rejected")
                 => FailedOn(c, calls[c].p))

\* The identity endpoint refused the exchange with 401 'bad creds' while
\* the cache held a token set by hand: the call raised the error with that
\* status and text, and the cache still holds the token.
C11_Witness ==
    /\ FailedOn(1, 1)
    /\ calls[1].out.error.status = Some(401)
    /\ calls[1].out.error.headers = Some("identity-headers")
    /\ calls[1].out.error.error = Some("bad creds")
    /\ tokenCache # NoCache /\ tokenCache.access_token \in ManualTokens

----------------------------------------------------------------------------
InvalidTokenResponse ==
    R2CError(<<"Invalid token response from server">>,
             Undefined, Undefined, Undefined)

\* C12. When the identity endpoint answers an exchange with a success
\* status and a JSON body whose access_token or expires_in is absent or
\* falsy (expires_in = 0 included), the exchange's promise is rejected with
\* the R2CError 'Invalid token response from server', the cache is left as
\* it was, and by the time a call has raised that error refreshPromise no
\* longer holds the promise of that exchange.
C12_InvalidTokenResponse ==
    /\ [][\A e \in CallIds :
             (/\ SettlesNow(e)
              /\ exch[e].resp.ok /\ exch[e].resp.json
              /\ (~Truthy(exch[e].resp.access_token) \/ exch[e].resp.expires_in = 0))
                 => /\ exch'[e].stage = "rejected"
                    /\ exch'[e].error = InvalidTokenResponse
                    /\ tokenCache' = tokenCache]_vars
    /\ [](\A c \in Started :
             (calls[c].pc = "done" /\ calls[c].out = Raised(InvalidTokenResponse))
                 => /\ FailedOn(c, calls[c].p)
                    /\ refreshPromise # calls[c].p)

\* Two calls shared an exchange that was answered without a usable token:
\* both raised the error, the cache is empty and refreshPromise is null.
C12_Witness ==
    /\ FailedOn(1, 1) /\ FailedOn(2, 1)
    /\ exch[1].error = InvalidTokenResponse
    /\ tokenCache = NoCache
    /\ refreshPromise = 0
    /\ identityCalls = 1

----------------------------------------------------------------------------
\* The client was built without the checks of R2CClient and holds neither
\* a static bearer token nor OAuth credentials.
NoCredentials ==
    constructed = "ok" /\ ~Truthy(bearerToken) /\ ~oauthCredentials

\* C13. On a client that holds neither a static bearer token nor OAuth
\* credentials, every call of authHeaders() and of makeRequest() has raised
\* the R2CError 'No authentication configured...', and neither the identity
\* endpoint nor the resource endpoint has been called, whatever the cache
\* holds.
C13_NoCredentials ==
    NoCredentials =>
        /\ identityCalls = 0
        /\ resourceCalls = 0
        /\ refreshPromise = 0
        /\ \A e \in CallIds : exch[e].stage = "none"
        /\ \A c \in Started :
              /\ calls[c].pc = "done"
              /\ calls[c].auth = null
              /\ calls[c].out = Raised(NoAuthError)

\* A resolution and a dispatch were made on such a client while the cache
\* held a usable token set by hand; both raised.
C13_Witness ==
    /\ NoCredentials
    /\ ManualTokenUsable
    /\ \E c, d \in Started :
          /\ calls[c].kind = "resolve" /\ calls[c].out = Raised(NoAuthError)
          /\ calls[d].kind = "dispatch" /\ calls[d].out = Raised(NoAuthError)

----------------------------------------------------------------------------
\* The dispatches whose request has been handed to the transport.
Dispatched ==
    {c \in Started : calls[c].kind = "dispatch" /\ calls[c].pc \in {"fetch", "done"}
                        /\ calls[c].auth # null}

\* C14. No retry: the resource endpoint has been called once per dispatch
\* whose resolution gave a token and never otherwise; the step in which a
\* resource call settles ends the dispatch, returning or raising, and
\* touches neither the transport, nor the exchanges, nor the cache, nor
\* refreshPromise; a call that has ended does nothing more.
C14_NoRetry ==
    /\ [](resourceCalls = Cardinality(Dispatched))
    /\ [][\A c \in CallIds :
             /\ calls[c].pc = "fetch" /\ calls'[c] # calls[c]
                   => /\ calls'[c].pc = "done"
                      /\ calls'[c].out.state \in {"returned", "raised"}
                      /\ UNCHANGED << resourceCalls, identityCalls, exch,
                                      tokenCache, refreshPromise >>
             /\ calls[c].pc = "done" => calls'[c] = calls[c]]_vars

\* A dispatch sent with the token of the cache, which still counts as
\* valid, was answered 401 and raised that error; the resource endpoint was
\* called once, the identity endpoint once, and the cache holds the token.
C14_Witness ==
    /\ oauthCredentials
    /\ CacheUsable
    /\ refreshPromise = 0
    /\ identityCalls = 1 /\ resourceCalls = 1
    /\ \E c \in Started :
          /\ calls[c].kind = "dispatch" /\ calls[c].pc = "done"
          /\ calls[c].auth = tokenCache.access_token
          /\ calls[c].out.state = "raised"
          /\ calls[c].out.error.status = Some(401)

----------------------------------------------------------------------------
\* parseResponse() has run on the response.
Parsed == response # NoResponse /\ outcome # Pending

\* C15. For every response whose status is outside 200..299, parseResponse()
\* reads the body as text and raises an R2CError that carries the status,
\* the response's headers and the body text as read, with the message
\* 'HTTP Error <status>: <text>', the reason phrase standing for an empty
\* text; it returns nothing.
C15_NonOkRaises ==
    (Parsed /\ (response.status < 200 \/ response.status > 299))
        => /\ outcome.state = "raised"
           /\ outcome.error.name = "R2CError"
           /\ outcome.error.status = Some(response.status)
           /\ outcome.error.headers = Some(response.headers)
           /\ outcome.error.error = Some(response.text)
           /\ outcome.error.message =
                 <<"HTTP Error ", response.status, ": ",
                   IF response.text = "" THEN response.statusText
                   ELSE response.text>>
           /\ bodyRead = "text"

\* A 404 with the body 'Not found' and a JSON content type raised the
\* error carrying 404 and that text.
C15_Witness ==
    /\ Parsed
    /\ response.status = 404 /\ response.text = "Not found"
    /\ response.contentType = "application/json"
    /\ outcome.state = "raised"
    /\ outcome.error.message = <<"HTTP Error ", 404, ": ", "Not found">>

----------------------------------------------------------------------------
\* C16. For every response with status 204, whatever its content type and
\* body, parseResponse() returns null and calls neither text() nor json()
\* on the response.
C16_NoContentIsNull ==
    (Parsed /\ response.status = 204)
        => outcome = Returned(JsNull) /\ bodyRead = "none"

\* A 204 that announces JSON and holds a body that is not JSON gave null.
C16_Witness ==
    /\ Parsed
    /\ response.status = 204
    /\ response.contentType = "application/json"
    /\ response.text = "Not found"
    /\ outcome = Returned(JsNull)
    /\ bodyRead = "none"

----------------------------------------------------------------------------
\* The outcomes of the first, second and fourth case of parseResponse().
FourWayOutside ==
    IF ~response.ok
    THEN outcome.state = "raised" /\ outcome.error.status = Some(response.status)
    ELSE IF response.status = 204
    THEN outcome = Returned(JsNull)
    ELSE ~IsJsonContentType(response.contentType)
            => outcome = Returned(JsString(response.text)) /\ bodyRead = "text"

\* The third case applies to the response.
JsonCase ==
    response.ok /\ response.status # 204 /\ IsJsonContentType(response.contentType)

----------------------------------------------------------------------------
\* The verb operation has run up to this.fetch.
Sent == invocation # NoInvocation /\ wire # NoWire

\* The HTTP verb of each operation.
VerbOf(op) ==
    CASE op = "get" -> "GET"
      [] op = "getWithQuery" -> "GET"
      [] op = "post" -> "POST"
      [] op = "patch" -> "PATCH"
      [] op = "delete" -> "DELETE"

\* C18. Whatever the options argument, each verb operation hands
\* makeRequest() its own verb and its own path argument, post and patch
\* their own body argument as well, and the request goes out with that
\* verb.
C18_OwnVerbPathBody ==
    Sent =>
        /\ descriptor.method = VerbOf(invocation.op)
        /\ wire.method = VerbOf(invocation.op)
        /\ descriptor.path = invocation.path
        /\ wire.url[2] = invocation.path
        /\ invocation.op \in {"post", "patch"} => descriptor.body = invocation.body

----------------------------------------------------------------------------
\* The entries of the query whose value is neither undefined nor null.
Kept ==
    IF descriptor.query.given
    THEN SelectSeq(descriptor.query.entries,
                   LAMBDA e : e[2] \notin {JsUndefined, JsNull})
    ELSE << >>

\* C19. The url handed to the transport is baseURL, then the path, then,
\* when at least one entry of the query has a value other than undefined
\* and null, '?' and one name=value piece per such entry, in the order of
\* the mapping, joined by '&', the value being String(value) in its
\* form-urlencoded spelling (0, false and '' are kept); with no such entry,
\* or no query, the url is baseURL and the path and holds no '?'.
C19_WireURL ==
    Sent =>
        /\ wire.url[1] = BaseURL
        /\ wire.url[2] = descriptor.path
        /\ IF Kept = << >>
           THEN Len(wire.url) = 2
           ELSE /\ Len(wire.url) = 2 + 2 * Len(Kept)
                /\ wire.url[3] = "?"
                /\ \A i \in 1..Len(Kept) :
                      /\ wire.url[2 + 2 * i] =
                            FormEncode(Kept[i][1]) \o "=" \o FormEncode(String(Kept[i][2]))
                      /\ i > 1 => wire.url[1 + 2 * i] = "&"
           /\ \A i \in 4..Len(wire.url) : wire.url[i] # "?"

\* getWithQuery('/test', { limit: null, page: 0 }) went out as
\* .../test?page=0.
C19_Witness ==
    /\ Sent
    /\ invocation.op = "getWithQuery"
    /\ invocation.query = Query(<< <<"limit", JsNull>>, <<"page", JsNumber("0")>> >>)
    /\ wire.url = <<BaseURL, "/test", "?", "page=0">>

----------------------------------------------------------------------------
\* C20. The request has a body, the JSON encoding of the body handed to
\* makeRequest(), whenever one is supplied, 0, false and '' included, and
\* has none only when none is supplied.
C20_BodyWheneverSupplied ==
    Sent =>
        IF descriptor.body = JsUndefined THEN wire.body = NoBody
        ELSE descriptor.body # JsNull
                => wire.body = BodyText(JSONStringify(descriptor.body))

----------------------------------------------------------------------------
\* C22. Every call of authHeaders() or makeRequest() that ended raising
\* raised an R2CError: the error's name is R2CError, whatever failed
\* (configuration, the exchange, the token response, the resource response
\* or the transport call itself).
C22_AllNormalized ==
    \A c \in Started :
        calls[c].out.state = "raised" => calls[c].out.error.name = "R2CError"

----------------------------------------------------------------------------
\* Steps of the properties below.

\* fetchOAuthToken() of exchange e writes the cache and fulfils its promise
\* in this step.
SuccessfulSettle(e) == SettlesNow(e) /\ exch'[e].stage = "fulfilled"

\* The promise of exchange e is rejected in this step.
FailedSettle(e) == Unsettled(e) /\ exch'[e].stage = "rejected"

\* The cache fetchOAuthToken() writes for the response exchange e is
\* reading, at the clock of this step.
CacheOf(e) ==
    TokenCache(exch[e].resp.access_token, now + exch[e].resp.expires_in * 1000)

\* C23. The cache is last-write-wins and setToken() and clearToken() leave
\* the promise alone: a step in which an exchange is fulfilled leaves in the
\* cache the token of that exchange, whatever the cache held; a clearToken()
\* step leaves the cache empty; every other step that changes the cache is a
\* setToken() that leaves the token and expiry it was given; and the steps
\* of setToken() and clearToken() change neither refreshPromise nor any
\* exchange, whether one is outstanding or not.
C23_LastWriteWins ==
    [][/\ \A e \in CallIds : SuccessfulSettle(e) => tokenCache' = CacheOf(e)
       /\ lastOp' = "clearToken"
             => tokenCache' = NoCache /\ UNCHANGED << refreshPromise, exch, calls >>
       /\ (tokenCache' # tokenCache /\ lastOp' # "clearToken"
              /\ \A e \in CallIds : ~SettlesNow(e))
             => /\ tokenCache' # NoCache
                /\ tokenCache'.access_token \in ManualTokens
                /\ \E expiresIn \in Lifetimes :
                      tokenCache'.expires_at = now + expiresIn * 1000
                /\ UNCHANGED << refreshPromise, exch, calls >>]_vars

\* The only exchange there was started, a token was then set by hand and
\* served the second call from the cache, and the exchange, fulfilled after
\* that, left its own token in the cache.
C23_Witness ==
    /\ identityCalls = 1
    /\ nCalls = 2
    /\ calls[1].p = 1
    /\ calls[2].p = 0 /\ calls[2].auth \in ManualTokens
    /\ exch[1].stage = "fulfilled"
    /\ tokenCache # NoCache /\ tokenCache.access_token = exch[1].value

----------------------------------------------------------------------------
\* C24. clearToken() leaves the cache empty and changes nothing else: no
\* transport call is counted, refreshPromise, the exchanges, the calls and
\* the configured credentials are as they were; and in a state clearToken()
\* has just produced, clearToken() would write the cache that is there.
C24_ClearTokenIdempotent ==
    /\ [][lastOp' = "clearToken"
             => /\ tokenCache' = NoCache
                /\ UNCHANGED << identityCalls, resourceCalls, refreshPromise,
                                exch, calls, nCalls, bearerToken,
                                oauthCredentials, constructed, now >>]_vars
    /\ [](lastOp = "clearToken" => tokenCache = NoCache /\ clearTokenCache = tokenCache)

\* clearToken() has just run while the body of an exchange's response was
\* being read: the cache is empty and refreshPromise holds that exchange.
C24_Witness ==
    /\ lastOp = "clearToken"
    /\ tokenCache = NoCache
    /\ oauthCredentials
    /\ refreshPromise = 1 /\ exch[1].stage = "body"
    /\ identityCalls = 1

----------------------------------------------------------------------------
\* C26. A dispatch waiting for its token has sent nothing to the resource
\* endpoint; a dispatch whose request is out holds a token, that of the
\* fulfilled exchange it waited for if it waited; a dispatch that ended
\* without a token raised the authentication error (that of its exchange,
\* or the no-credentials error) and is not among the dispatches that called
\* the resource endpoint, which was called once for each of the others.
C26_ResolutionFirst ==
    /\ \A c \in Started :
          calls[c].kind = "dispatch" =>
              /\ calls[c].pc = "await"
                    => calls[c].auth = null /\ calls[c].out = Pending
              /\ calls[c].pc = "fetch"
                    => /\ calls[c].auth # null
                       /\ calls[c].p # 0 => exch[calls[c].p].stage = "fulfilled"
              /\ (calls[c].pc = "done" /\ calls[c].auth = null)
                    => /\ c \notin Dispatched
                       /\ IF calls[c].p = 0
                          THEN calls[c].out = Raised(NoAuthError)
                          ELSE /\ exch[calls[c].p].stage = "rejected"
                               /\ calls[c].out = Raised(exch[calls[c].p].error)
    /\ resourceCalls =
          Cardinality({c \in Started : calls[c].kind = "dispatch"
                                          /\ calls[c].pc \in {"fetch", "done"}
                                          /\ calls[c].auth # null})

\* Two dispatches waited for one exchange, whose token response was not
\* usable; both raised its error and the resource endpoint was not called.
C26_Witness ==
    /\ nCalls = 2
    /\ calls[1].kind = "dispatch" /\ calls[2].kind = "dispatch"
    /\ calls[1].p = 1 /\ calls[2].p = 1
    /\ exch[1].stage = "rejected" /\ exch[1].error = InvalidTokenResponse
    /\ calls[1].out = Raised(InvalidTokenResponse)
    /\ calls[2].out = Raised(InvalidTokenResponse)
    /\ resourceCalls = 0

----------------------------------------------------------------------------
\* The dispatches that waited for exchange e (none, when e is 0) and have
\* their request out.
DispatchesOf(e) ==
    {c \in Started : calls[c].kind = "dispatch" /\ calls[c].p = e
                        /\ calls[c].pc \in {"fetch", "done"}
                        /\ calls[c].auth # null}

\* C27. On an OAuth client a dispatch made without a valid cached token
\* while an exchange is outstanding joins that exchange and sends nothing to
\* the identity endpoint; once the exchange is fulfilled each of the
\* dispatches that waited for it sends one resource request, and each of
\* those requests carries the token that exchange returned.
C27_SharedExchangeDispatches ==
    /\ [][(IsStart /\ oauthCredentials /\ ~CacheUsable
              /\ refreshPromise # 0 /\ Unsettled(refreshPromise))
             => JoinsPromise /\ resourceCalls' = resourceCalls]_vars
    /\ [](oauthCredentials =>
            /\ \A e \in CallIds : \A c \in DispatchesOf(e) :
                  /\ exch[e].stage = "fulfilled"
                  /\ calls[c].auth = exch[e].value
            /\ resourceCalls =
                  Cardinality(UNION {DispatchesOf(e) : e \in 0..MaxCalls}))

\* Two dispatches shared one exchange: the identity endpoint was called
\* once, the resource endpoint twice, and both requests carry the
\* exchange's token.
C27_Witness ==
    /\ oauthCredentials
    /\ nCalls = 2
    /\ DispatchesOf(1) = {1, 2}
    /\ identityCalls = 1 /\ resourceCalls = 2
    /\ calls[1].auth = "a" /\ calls[2].auth = "a" /\ exch[1].value = "a"

----------------------------------------------------------------------------
\* C28. A step in which an exchange's promise is rejected (the transport
\* rejected, the identity endpoint answered outside 2xx, or the token
\* response was not usable) leaves the cache as it is; a step that changes
\* the cache is clearToken(), the fulfilment of an exchange, or a setToken()
\* that leaves a token set by hand.
C28_FailedExchangeKeepsCache ==
    [][/\ \A e \in CallIds : FailedSettle(e) => tokenCache' = tokenCache
       /\ tokenCache' # tokenCache
             => \/ lastOp' = "clearToken"
                \/ \E e \in CallIds : SuccessfulSettle(e)
                \/ /\ tokenCache' # NoCache
                   /\ tokenCache'.access_token \in ManualTokens]_vars

\* The first exchange left a token that does not count as valid, the second
\* exchange failed, and the cache still holds the first exchange's token
\* with its expiry.
C28_Witness ==
    /\ exch[1].stage = "fulfilled" /\ exch[1].value = "a"
    /\ exch[2].stage = "rejected"
    /\ tokenCache = TokenCache("a", exch[1].started + 60 * 1000)
    /\ ~isTokenValid(tokenCache, now)

----------------------------------------------------------------------------
\* The cache holds the token of a fulfilled exchange whose lifetime was no
\* longer than the buffer.
ShortLivedStored ==
    /\ tokenCache # NoCache
    /\ \E e \in CallIds :
          /\ exch[e].stage = "fulfilled"
          /\ tokenCache.access_token = exch[e].value
          /\ tokenCache.expires_at <= exch[e].started + TOKEN_BUFFER_MS

\* C29. A token whose lifetime is no longer than the buffer is stored and
\* never counts as valid, and every call made on the OAuth client while the
\* cache holds such a token, its exchange settled, is served by a new
\* exchange: it starts one, or waits for one that has not settled.
C29_ShortLivedNeverReused ==
    /\ [](ShortLivedStored => ~isTokenValid(tokenCache, now))
    /\ [][(IsStart /\ oauthCredentials /\ ShortLivedStored)
             => \/ StartsExchange
                \/ JoinsPromise /\ refreshPromise # 0
                                /\ Unsettled(refreshPromise)]_vars

----------------------------------------------------------------------------
\* C30. In the step in which fetchOAuthToken() is fulfilled, the cache
\* receives the response's access token with the expiry now + expires_in *
\* 1000, now being the clock of that step and not the clock at which the
\* exchange started, and the value the promise is fulfilled with is the
\* access token just written; the calls the exchange served hold it.
C30_ExpiryFromCompletion ==
    /\ [][\A e \in CallIds :
             SuccessfulSettle(e)
                => /\ tokenCache'.expires_at = now + exch[e].resp.expires_in * 1000
                   /\ exch'[e].value = tokenCache'.access_token
                   /\ exch'[e].value = exch[e].resp.access_token]_vars
    /\ [](\A c \in Started :
             (calls[c].p # 0 /\ Resolved(c)) => calls[c].auth = exch[calls[c].p].value)

\* An exchange started at clock 0 was fulfilled at clock 60000 with a token
\* of 120 seconds: the cached expiry is 180000, and the starter holds the
\* token.
C30_Witness ==
    /\ exch[1].stage = "fulfilled" /\ exch[1].started = 0
    /\ exch[1].value = "b"
    /\ tokenCache = TokenCache("b", 180000)
    /\ calls[1].auth = "b"

----------------------------------------------------------------------------
\* The header mapping the caller passed with the invocation.
Overrides ==
    IF "headers" \in invocation.options.keys
    THEN invocation.options.headers ELSE NoHeaders

\* The defaults of a request sent with token.
Defaults(token) ==
    {<<"Content-Type", <<"application/json">>>>,
     <<"Authorization", <<"Bearer", token>>>>}

----------------------------------------------------------------------------
\* C25. No step taken on one client (a call, the completion of one of its
\* exchanges, a resumption, setToken(), clearToken(), the answer to one of
\* its dispatches) changes the tokenCache or the refreshPromise of another
\* client; the promise a client's refreshPromise holds was created by a call
\* on that client, and a call only ever awaits a promise created by a call
\* on its own client.
C25_PrivateToInstance ==
    /\ [][\A j \in ClientIds :
             j # fleet'.actor => fleet'.store[j] = fleet.store[j]]_vars
    /\ [](\A i \in ClientIds :
             fleet.store[i].refreshPromise # 0
                => fleet.client[fleet.store[i].refreshPromise] = i)
    /\ [](\A c \in 1..fleet.nCalls :
             fleet.calls[c].p # 0
                => fleet.client[fleet.calls[c].p] = fleet.client[c])

\* While the exchange client 1 started was outstanding, a call on client 2
\* started an exchange of its own, which left its token in the cache of
\* client 2; client 1 holds a token set by hand, and each client's
\* refreshPromise holds its own exchange.
C25_Witness ==
    /\ fleet.nCalls = 2
    /\ fleet.client[1] = 1 /\ fleet.client[2] = 2
    /\ fleet.store[1].refreshPromise = 1 /\ fleet.exch[1].stage = "fetch"
    /\ fleet.store[2].refreshPromise = 2 /\ fleet.exch[2].stage = "fulfilled"
    /\ fleet.store[1].tokenCache # NoCache
    /\ fleet.store[1].tokenCache.access_token \in ManualTokens
    /\ fleet.store[2].tokenCache # NoCache
    /\ fleet.store[2].tokenCache.access_token = "a"

----------------------------------------------------------------------------
\* C31. When the transport settles every call it is given, every call of
\* authHeaders() or makeRequest() that was made ends, returning or raising,
\* the calls that joined a promise included; an exchange that was started
\* settles, and refreshPromise, once it holds a promise, is null again
\* later.
C31_EveryCallEnds ==
    /\ \A c \in CallIds :
          (calls[c].kind # "none")
              ~> (calls[c].pc = "done"
                     /\ calls[c].out.state \in {"returned", "raised"})
    /\ \A e \in CallIds : Unsettled(e) ~> Settled(e)
    /\ \A e \in CallIds : (refreshPromise = e) ~> (refreshPromise = 0)

\* A dispatch joined the exchange a resolution had started; the exchange
\* was fulfilled, both calls ended and refreshPromise is null.
C31_Witness ==
    /\ nCalls = 2
    /\ calls[1].kind = "resolve" /\ calls[2].kind = "dispatch"
    /\ calls[1].p = 1 /\ calls[2].p = 1
    /\ exch[1].stage = "fulfilled"
    /\ calls[1].pc = "done" /\ calls[2].pc = "done"
    /\ calls[2].out.state = "returned"
    /\ refreshPromise = 0

====
